---- MODULE Spec2Model ----
(***************************************************************************)
(* Placement evaluation of codename-LogiPack: the heuristic scorer of      *)
(* python_packer_server.py (PythonBinPacker), the /predict route of        *)
(* model_server.py with its heuristic fallback, and the heuristic that     *)
(* convert_model.py generates as JavaScript.                               *)
(*                                                                         *)
(* Numbers.  Heights are floats in the source.  Here a height is an        *)
(* integer count of 1/Unit (Unit = 16), so every height, difference and    *)
(* sum in the model is a dyadic rational that IEEE doubles represent and   *)
(* subtract exactly; a comparison with 0.1 or 0.01 is the integer          *)
(* comparison 10*x < Unit or 100*x < Unit.  Scores are exact fractions     *)
(* <<num, den>> in lowest terms.  exp(-std) is kept symbolic.              *)
(*                                                                         *)
(* Arrays.  A numpy array is [shape, data]: the shape and the row-major    *)
(* buffer.  Grid indices are 0-based as in the source.                     *)
(*                                                                         *)
(* Scale.  grid_size is 32 in the source; the model runs the same loops    *)
(* over GridSize = 3.                                                      *)
(***************************************************************************)
EXTENDS Integers, Sequences, FiniteSets, TLC

GridSize == 3

Unit == 16

MaxOdd == 2

MaxLookahead == 2

MaxCalls == 3

----------------------------------------------------------------------------
(* Exact arithmetic *)

Abs(x) == IF x < 0 THEN -x ELSE x

Min2(a, b) == IF a < b THEN a ELSE b

Max2(a, b) == IF a > b THEN a ELSE b

RECURSIVE Gcd(_, _)
Gcd(a, b) == IF b = 0 THEN a ELSE Gcd(b, a % b)

\* the fraction n/d (d > 0) in lowest terms
Frac(n, d) ==
    IF n = 0 THEN <<0, 1>>
    ELSE LET g == Gcd(Abs(n), d) IN <<n \div g, d \div g>>

Zero == <<0, 1>>

One == <<1, 1>>

Half == <<1, 2>>

FracLeq(x, y) == x[1] * y[2] <= y[1] * x[2]

InUnitInterval(x) == x[1] >= 0 /\ x[1] <= x[2]

RECURSIVE SeqSum(_)
SeqSum(s) == IF s = <<>> THEN 0 ELSE Head(s) + SeqSum(Tail(s))

RECURSIVE SeqMax(_)
SeqMax(s) == IF Len(s) = 1 THEN s[1] ELSE Max2(Head(s), SeqMax(Tail(s)))

RECURSIVE SeqProd(_)
SeqProd(s) == IF s = <<>> THEN 1 ELSE Head(s) * SeqProd(Tail(s))

\* a value c + w * exp(-sqrt(v)): c, w, v are fractions; exp(-0) = 1 is folded in
Num(c, w, v) ==
    IF v = Zero \/ w = Zero
    THEN [c |-> Frac(c[1] * w[2] + w[1] * c[2], c[2] * w[2]), w |-> Zero, v |-> Zero]
    ELSE [c |-> c, w |-> w, v |-> v]

Const(c) == Num(c, Zero, Zero)

----------------------------------------------------------------------------
(* numpy arrays *)

Size(x) == SeqProd(x.shape)

\* x[0]: the first slab along the leading axis
CanIndex0(x) == Len(x.shape) >= 1 /\ x.shape[1] >= 1

Index0(x) ==
    LET rest == Tail(x.shape)
    IN  [shape |-> rest, data |-> SubSeq(x.data, 1, SeqProd(rest))]

\* x[..., None]: a trailing axis of length 1; the buffer is unchanged
AddAxis(x) == [shape |-> Append(x.shape, 1), data |-> x.data]

\* g[i, j] of a two-dimensional array
InArray(g, i, j) == i >= 0 /\ i < g.shape[1] /\ j >= 0 /\ j < g.shape[2]

At(g, i, j) == g.data[i * g.shape[2] + j + 1]

\* elementwise operators need equal shapes (the two operands of every
\* elementwise operation of the model have axes of length >= 2 or the same
\* added axis, so numpy's broadcasting of a length-1 axis never applies)
SameShape(x, y) == x.shape = y.shape

Positions(x) == 1..Len(x.data)

----------------------------------------------------------------------------
(* PythonBinPacker: the sub-scorers of python_packer_server.py *)

GridRange == 0..(GridSize - 1)

GridCells == GridRange \X GridRange

\* min(1.0, np.max(action_map))
HeightUtilization(a) == Frac(Min2(Unit, SeqMax(a.data)), Unit)

\* max(0, 1 - np.var(action_map) / 0.25)
HeightVarianceScore(a) ==
    LET n  == Len(a.data)
        s  == SeqSum(a.data)
        q  == SeqSum([k \in 1..n |-> a.data[k] * a.data[k]])
        d  == n * n * Unit * Unit
        nm == d - 4 * (n * q - s * s)
    IN  IF nm <= 0 THEN Zero ELSE Frac(nm, d)

\* action_map[i, j] > height_map[i, j]
IsNewCell(h, a, i, j) == At(a, i, j) > At(h, i, j)

\* the inner double loop: some other cell within Chebyshev distance 1 holds a
\* strictly greater action_map value (every cell of the grid is a candidate)
Shadowed(a, i, j) ==
    \E ii \in GridRange, jj \in GridRange :
        /\ (ii # i \/ jj # j)
        /\ At(a, ii, jj) > At(a, i, j)
        /\ Abs(ii - i) <= 1 /\ Abs(jj - j) <= 1

\* base_mask after the loops
BaseMask(h, a) ==
    {c \in GridCells : IsNewCell(h, a, c[1], c[2]) /\ ~Shadowed(a, c[1], c[2])}

\* base_mask & (action_map - height_map < 0.1)
SupportedMask(h, a) ==
    {c \in BaseMask(h, a) : 10 * (At(a, c[1], c[2]) - At(h, c[1], c[2])) < Unit}

\* the ValueError of action_map > height_map on unequal shapes and the
\* IndexError of the grid_size loops on a smaller array
SupportRaises(h, a) ==
    \/ ~SameShape(h, a)
    \/ /\ \E k \in Positions(a) : a.data[k] > h.data[k]
       /\ (a.shape[1] < GridSize \/ a.shape[2] < GridSize)

\* variant: "<=" for "<" in the test of half support
SupportRatioAlt(supported, base) ==
    IF 2 * supported <= base
    THEN Frac(supported, 5 * base)
    ELSE Frac(supported, base)

\* the last lines of _calculate_support_score
SupportRatio(supported, base) ==
    IF 2 * supported < base
    THEN Frac(supported, 5 * base)
    ELSE Frac(supported, base)

CalculateSupportScore(h, a) ==
    IF SupportRaises(h, a) THEN Half
    ELSE IF ~(\E k \in Positions(a) : a.data[k] > h.data[k]) THEN One
    ELSE LET base == Cardinality(BaseMask(h, a))
             supported == Cardinality(SupportedMask(h, a))
         IN  IF base = 0 THEN Zero ELSE SupportRatio(supported, base)

\* the cells with action_map > 0, as (row, column) of a two-dimensional array
Occupied(a) ==
    {<<(k - 1) \div a.shape[2], (k - 1) % a.shape[2]>> :
        k \in {p \in Positions(a) : a.data[p] > 0}}

SetMin(S) == CHOOSE x \in S : \A y \in S : x <= y

SetMax(S) == CHOOSE x \in S : \A y \in S : x >= y

\* variant: the extents without "+ 1"
BBoxAreaAlt(a) ==
    LET rows == {c[1] : c \in Occupied(a)}
        cols == {c[2] : c \in Occupied(a)}
    IN  (SetMax(rows) - SetMin(rows)) * (SetMax(cols) - SetMin(cols))

\* (max_i - min_i + 1) * (max_j - min_j + 1)
BBoxArea(a) ==
    LET rows == {c[1] : c \in Occupied(a)}
        cols == {c[2] : c \in Occupied(a)}
    IN  (SetMax(rows) - SetMin(rows) + 1) * (SetMax(cols) - SetMin(cols) + 1)

CalculateCompactness(a) ==
    IF Occupied(a) = {} THEN Zero
    ELSE LET bbox_volume == BBoxArea(a) * SeqMax(a.data)
             occupied_volume == SeqSum(a.data)
         IN  IF bbox_volume > 0 THEN Frac(occupied_volume, bbox_volume) ELSE Zero

\* np.std(action_map) squared: the zero cells counted too
FlatnessVarAlt(a) ==
    LET n == Len(a.data)
        s == SeqSum(a.data)
        q == SeqSum([p \in Positions(a) |-> a.data[p] * a.data[p]])
    IN  Frac(n * q - s * s, n * n * Unit * Unit)

\* np.std(action_map[action_map > 0]) squared, as a fraction
FlatnessVar(a) ==
    LET pos == {p \in Positions(a) : a.data[p] > 0}
        vals == [p \in Positions(a) |-> IF p \in pos THEN a.data[p] ELSE 0]
        m == Cardinality(pos)
        s == SeqSum(vals)
        q == SeqSum([p \in Positions(a) |-> vals[p] * vals[p]])
    IN  Frac(m * q - s * s, m * m * Unit * Unit)

\* item_features is a (count, arity) array; its n-th row, n = 1..count
ItemCount(items) == items.shape[1]

ItemArity(items) == items.shape[2]

Item(items, n) ==
    SubSeq(items.data, (n - 1) * ItemArity(items) + 1, n * ItemArity(items))

\* the rows that pass "if sum(item) > 0"
ValidItems(items) == {n \in 1..ItemCount(items) : SeqSum(Item(items, n)) > 0}

\* sum(future_items_sizes) / len(future_items_sizes)
AvgFutureSize(items) ==
    LET size == [n \in 1..ItemCount(items) |->
                    IF n \in ValidItems(items)
                    THEN Item(items, n)[1] * Item(items, n)[2] * Item(items, n)[3]
                    ELSE 0]
    IN  Frac(SeqSum(size), Cardinality(ValidItems(items)))

\* variant: the test for occupied cells before the test of the length
FuturePrefixAlt(a, items) ==
    IF {p \in Positions(a) : a.data[p] > 0} = {}
    THEN [scan |-> FALSE, value |-> Const(Half)]
    ELSE IF ItemCount(items) = 0
    THEN [scan |-> FALSE, value |-> Const(One)]
    ELSE IF ValidItems(items) # {} /\ ItemArity(items) < 3
    THEN [scan |-> FALSE, value |-> Const(Half)]
    ELSE IF ValidItems(items) = {}
    THEN [scan |-> FALSE, value |-> Num(Zero, One, FlatnessVar(a))]
    ELSE [scan |-> TRUE, value |-> Const(Zero)]

\* _evaluate_future_items up to the call of _find_flat_areas: either the value
\* it returns before that call, or the request to scan the grid
FuturePrefix(a, items) ==
    IF ItemCount(items) = 0
    THEN [scan |-> FALSE, value |-> Const(One)]
    ELSE IF {p \in Positions(a) : a.data[p] > 0} = {}
    THEN [scan |-> FALSE, value |-> Const(Half)]
    ELSE IF ValidItems(items) # {} /\ ItemArity(items) < 3
    THEN [scan |-> FALSE, value |-> Const(Half)]
    ELSE IF ValidItems(items) = {}
    THEN [scan |-> FALSE, value |-> Num(Zero, One, FlatnessVar(a))]
    ELSE [scan |-> TRUE, value |-> Const(Zero)]

\* max(0, 1 - min(1, abs(max(flat_areas) - avg) / avg)), and 0 without flat
\* areas; avg = 0 makes the float quotient inf and the score 0
BestFitScore(areas, avg) ==
    IF areas = <<>> \/ avg[1] = 0 THEN Zero
    ELSE LET dist == Abs(SeqMax(areas) * avg[2] - avg[1])
         IN  IF dist >= avg[1] THEN Zero ELSE Frac(avg[1] - dist, avg[1])

\* 0.7 * flatness_score + 0.3 * best_fit_score
FutureCombine(a, areas, avg) ==
    LET fit == BestFitScore(areas, avg)
    IN  Num(Frac(3 * fit[1], 10 * fit[2]), <<7, 10>>, FlatnessVar(a))

\* the weighted sum of predict, kept as its five terms
QValue(hu, hv, sup, comp, fut) ==
    [kind |-> "q_value", height_utilization |-> hu, height_variance_score |-> hv,
     support_score |-> sup, compactness_score |-> comp, future_items_score |-> fut]

----------------------------------------------------------------------------
(* model_server.py: the model path and the heuristic fallback of /predict *)

\* the statements of the inner try block before model.predict; TRUE when one
\* of them raises (imap_in.shape[1] of a one-dimensional array, np.concatenate
\* of the (batch, 4 - n, 3) padding with rows of another arity, a slice with
\* too many indices)
ModelInputRaises(imap_in) ==
    \/ Len(imap_in.shape) < 2
    \/ /\ imap_in.shape[2] < 4
       /\ (Len(imap_in.shape) # 3 \/ imap_in.shape[3] # 3)
    \/ /\ imap_in.shape[2] > 4
       /\ Len(imap_in.shape) < 3

\* the statements of the fallback that raise: hmap_in[0] and amap_in[0],
\* np.max of an empty array, action_map > height_map on unequal shapes
HeuristicRaises(hmap_in, amap_in) ==
    \/ ~CanIndex0(hmap_in) \/ ~CanIndex0(amap_in)
    \/ Size(Index0(hmap_in)) = 0 \/ Size(Index0(amap_in)) = 0
    \/ ~SameShape(Index0(hmap_in), Index0(amap_in))

\* np.sum(support_area) / (np.sum(action_area) + 1e-6)
FallbackSupportScore(h, a) ==
    LET action_area == Cardinality({k \in Positions(a) : a.data[k] > h.data[k]})
        support_area == Cardinality({k \in Positions(a) :
                                        100 * Abs(a.data[k] - h.data[k]) < Unit})
    IN  Frac(support_area * 1000000, action_area * 1000000 + 1)

\* np.sum(occupied_cells * action_cells) / (np.sum(action_cells) + 1e-6)
FallbackCompactness(h, a) ==
    LET action_cells == Cardinality({k \in Positions(a) : a.data[k] > 0})
        both == Cardinality({k \in Positions(a) : h.data[k] > 0 /\ a.data[k] > 0})
    IN  Frac(both * 1000000, action_cells * 1000000 + 1)

\* 0.5 * height_utilization + 0.3 * support_score + 0.2 * compactness, kept
\* as its three terms
HeuristicScore(hmap_in, amap_in) ==
    LET height_map == Index0(hmap_in)
        action_map == Index0(amap_in)
    IN  [kind |-> "heuristic_score",
         height_utilization |-> HeightUtilization(action_map),
         support_score |-> FallbackSupportScore(height_map, action_map),
         compactness |-> FallbackCompactness(height_map, action_map)]

NoValue == [kind |-> "none"]

ErrorResponse == [status |-> "error", prediction |-> NoValue, method |-> "none"]

\* variant: without the inner try, a failure of the model path is an error
ModelServerResponseAlt(r, loaded, infer) ==
    LET model_path == loaded
        reached == model_path /\ ~ModelInputRaises(r.imap_in)
        fell_back == model_path /\ ~(reached /\ infer = "ok")
        hmap_in == IF model_path THEN AddAxis(r.hmap_in) ELSE r.hmap_in
        amap_in == IF model_path THEN AddAxis(r.amap_in) ELSE r.amap_in
    IN  IF reached /\ infer = "ok"
        THEN [status |-> "success", prediction |-> [kind |-> "model"],
              method |-> "none"]
        ELSE IF fell_back \/ HeuristicRaises(hmap_in, amap_in)
        THEN ErrorResponse
        ELSE [status |-> "success",
              prediction |-> HeuristicScore(hmap_in, amap_in),
              method |-> "heuristic"]

\* the body of predict() of model_server.py; infer is what model.predict
\* does. The fallback reads hmap_in and amap_in as the model path left them:
\* reshaped when that path was entered.
ModelServerResponse(r, loaded, infer) ==
    LET model_path == loaded
        reached == model_path /\ ~ModelInputRaises(r.imap_in)
        hmap_in == IF model_path THEN AddAxis(r.hmap_in) ELSE r.hmap_in
        amap_in == IF model_path THEN AddAxis(r.amap_in) ELSE r.amap_in
    IN  IF reached /\ infer = "ok"
        THEN [status |-> "success", prediction |-> [kind |-> "model"],
              method |-> "none"]
        ELSE IF HeuristicRaises(hmap_in, amap_in)
        THEN ErrorResponse
        ELSE [status |-> "success",
              prediction |-> HeuristicScore(hmap_in, amap_in),
              method |-> "heuristic"]

----------------------------------------------------------------------------
(* convert_model.py: the heuristic of the generated DeepPack3DModel.js.     *)
(* Its loops run over the array's own dimensions.                           *)

ArrayCells(g) == (0..(g.shape[1] - 1)) \X (0..(g.shape[2] - 1))

JsIsBase(h, a, i, j) ==
    /\ At(a, i, j) > At(h, i, j)
    /\ ~\E c \in ArrayCells(a) :
            /\ (c[1] # i \/ c[2] # j)
            /\ At(a, c[1], c[2]) > At(a, i, j)
            /\ Abs(c[1] - i) <= 1 /\ Abs(c[2] - j) <= 1

JsCalculateSupportScore(h, a) ==
    LET base == {c \in ArrayCells(h) : JsIsBase(h, a, c[1], c[2])}
        supported == {c \in base : 10 * (At(a, c[1], c[2]) - At(h, c[1], c[2])) < Unit}
        baseCells == Cardinality(base)
        supportedCells == Cardinality(supported)
    IN  IF baseCells = 0 THEN Zero
        ELSE IF 2 * supportedCells < baseCells
        THEN Frac(supportedCells, 5 * baseCells)
        ELSE Frac(supportedCells, baseCells)

JsCalculateCompactness(a) ==
    IF Occupied(a) = {} THEN Zero
    ELSE LET bboxVolume == BBoxArea(a) * SeqMax(a.data)
             occupiedVolume ==
                 SeqSum([p \in Positions(a) |-> IF a.data[p] > 0 THEN a.data[p] ELSE 0])
         IN  IF bboxVolume > 0 THEN Frac(occupiedVolume, bboxVolume) ELSE Zero

\* floodFill: the visited grid after the call, the area it returns and the
\* deepest nesting of floodFill invocations it reached (depth = this call's)
RECURSIVE JsFloodFill(_, _, _, _, _, _)
JsFloodFill(g, visited, i, j, targetHeight, depth) ==
    IF \/ ~InArray(g, i, j)
       \/ <<i, j>> \in visited
       \/ 10 * Abs(At(g, i, j) - targetHeight) > Unit
    THEN [visited |-> visited, area |-> 0, depth |-> depth]
    ELSE LET r1 == JsFloodFill(g, visited \cup {<<i, j>>}, i + 1, j, targetHeight, depth + 1)
             r2 == JsFloodFill(g, r1.visited, i - 1, j, targetHeight, depth + 1)
             r3 == JsFloodFill(g, r2.visited, i, j + 1, targetHeight, depth + 1)
             r4 == JsFloodFill(g, r3.visited, i, j - 1, targetHeight, depth + 1)
         IN  [visited |-> r4.visited,
              area |-> 1 + r1.area + r2.area + r3.area + r4.area,
              depth |-> Max2(Max2(r1.depth, r2.depth), Max2(r3.depth, r4.depth))]

\* findFlatAreas from the k-th cell (row-major) on
RECURSIVE JsScan(_, _, _, _)
JsScan(g, k, visited, flatAreas) ==
    IF k >= g.shape[1] * g.shape[2] THEN flatAreas
    ELSE LET i == k \div g.shape[2]
             j == k % g.shape[2]
         IN  IF At(g, i, j) > 0 /\ <<i, j>> \notin visited
             THEN LET r == JsFloodFill(g, visited, i, j, At(g, i, j), 1)
                  IN  JsScan(g, k + 1, r.visited,
                             IF r.area > 0 THEN Append(flatAreas, r.area) ELSE flatAreas)
             ELSE JsScan(g, k + 1, visited, flatAreas)

JsFindFlatAreas(g) == JsScan(g, 0, {}, <<>>)

JsEvaluateFutureItems(a, items) ==
    IF ItemCount(items) = 0 THEN Const(One)
    ELSE IF {p \in Positions(a) : a.data[p] > 0} = {} THEN Const(Half)
    ELSE IF ValidItems(items) = {} THEN Num(Zero, One, FlatnessVar(a))
    ELSE FutureCombine(a, JsFindFlatAreas(a), AvgFutureSize(items))

\* 0.3 * heightUtilization + 0.4 * supportScore + 0.2 * compactnessScore
\* + 0.1 * futureItemsScore, kept as its four terms
JsCalculateHeuristic(r) ==
    LET heightMap == Index0(r.hmap_in)
        actionMap == Index0(r.amap_in)
        itemFeatures == Index0(r.imap_in)
    IN  [kind |-> "js_heuristic",
         heightUtilization |-> HeightUtilization(actionMap),
         supportScore |-> JsCalculateSupportScore(heightMap, actionMap),
         compactnessScore |-> JsCalculateCompactness(actionMap),
         futureItemsScore |-> JsEvaluateFutureItems(actionMap, itemFeatures)]

----------------------------------------------------------------------------
(* Requests *)

\* an n x n grid with a leading batch axis of length 1, from a function on cells
GridOf(n, f) ==
    [shape |-> <<1, n, n>>,
     data |-> [k \in 1..(n * n) |-> f[<<(k - 1) \div n, (k - 1) % n>>]]]

Cells(n) == (0..(n - 1)) \X (0..(n - 1))

\* a lookahead of rows of one arity, with a leading batch axis of length 1
RECURSIVE Flatten(_)
Flatten(rows) == IF rows = <<>> THEN <<>> ELSE Head(rows) \o Flatten(Tail(rows))

LookaheadOf(rows, arity) ==
    [shape |-> <<1, Len(rows), arity>>, data |-> Flatten(rows)]

Request(h, a, l) ==
    [const_in |-> [shape |-> h.shape, data |-> [k \in DOMAIN h.data |-> 0]],
     hmap_in |-> h, amap_in |-> a, imap_in |-> l]

Sentinel == <<0, 0, 0>>

Items == {Sentinel, <<1, 1, 1>>, <<2, 2, 1>>, <<1, 0, 0>>}

SeqsUpTo(S, n) == UNION {[1..k -> S] : k \in 0..n}

Lookaheads == {LookaheadOf(rows, 3) : rows \in SeqsUpTo(Items, MaxLookahead)}

SentinelLookaheads == {LookaheadOf(rows, 3) : rows \in SeqsUpTo({Sentinel}, MaxLookahead)}

OneItem == LookaheadOf(<<(<<2, 2, 1>>)>>, 3)

\* lookaheads whose rows have two or four components
MalformedLookaheads ==
    {LookaheadOf(rows, 2) : rows \in (SeqsUpTo({<<0, 0>>, <<1, 1>>}, MaxLookahead) \ {<<>>})}
    \cup {LookaheadOf(<<(<<1, 1, 1, 1>>)>>, 4)}

\* (heightMap, actionMap) values of one cell
Level == <<Unit, Unit>>

FlatPairs == {Level, <<Unit - 1, Unit>>, <<0, Unit>>}

OddPairs ==
    {<<0, 0>>, <<Unit - 1, Unit - 1>>, <<Unit + 1, Unit + 1>>,
     <<Unit - 1, Unit>>, <<0, Unit>>, <<Unit, Unit + 1>>, <<Unit + 1, Unit>>}

\* the (heightMap, actionMap) grids of a function from cells to pairs
PairGrids(pf) ==
    <<GridOf(GridSize, [c \in GridCells |-> pf[c][1]]),
      GridOf(GridSize, [c \in GridCells |-> pf[c][2]])>>

FewCells == {T \in SUBSET GridCells : Cardinality(T) <= MaxOdd}

\* surfaces: any set of cells at height 1.0 on a zero floor, and a level
\* surface with at most MaxOdd cells at 0 or 1/Unit off the level
Surfaces ==
    {GridOf(GridSize, f) : f \in [GridCells -> {0, Unit}]}
    \cup UNION {{GridOf(GridSize, [c \in GridCells |-> IF c \in S THEN of[c] ELSE Unit]) :
                    of \in [S -> {0, Unit - 1, Unit + 1}]} :
                S \in FewCells}

\* at most MaxOdd cells at height 1.0 on a zero floor
SparseSurfaces ==
    {GridOf(GridSize, [c \in GridCells |-> IF c \in S THEN Unit ELSE 0]) :
        S \in FewCells}

\* grids one cell shorter per side than grid_size
SmallSurfaces ==
    {GridOf(GridSize - 1, f) : f \in [Cells(GridSize - 1) -> {0, Unit}]}

LevelGrid == GridOf(GridSize, [c \in GridCells |-> Unit])

ZeroGrid == GridOf(GridSize, [c \in GridCells |-> 0])

MalformedRequests ==
    {Request(h, a, l) : h \in {LevelGrid, ZeroGrid}, a \in SmallSurfaces,
                        l \in {OneItem, LookaheadOf(<<Sentinel>>, 3)}}
    \cup {Request(a, a, l) : a \in SmallSurfaces,
                             l \in {OneItem, LookaheadOf(<<Sentinel>>, 3)}}
    \cup {Request(a, a, l) : a \in {LevelGrid, ZeroGrid}, l \in MalformedLookaheads}

----------------------------------------------------------------------------
(* State *)

VARIABLES
    server,       \* the program that serves the request
    model_loaded, \* model_server.py: "model is not None and tf is not None"
    req,          \* the JSON body of the POST /predict request
    pc,           \* "recv", "scan" (inside _find_flat_areas), "combine", "done"
    loc,          \* predict's sub-scores computed so far
    visited,      \* _find_flat_areas: the cells of visited that are True
    flat_areas,   \* _find_flat_areas: the list built so far
    scan,         \* _find_flat_areas: the loop indices (i, j)
    stack,        \* the active _flood_fill invocations, outermost first
    fill,         \* the latest outermost _flood_fill call: arguments and result
    resp,         \* the response, once sent
    call,         \* the request as the running evaluation received it, and
                  \* whether it was preempted inside _flood_fill by another
                  \* evaluation that was inside _flood_fill too
    suspended,    \* the frame of the evaluation of another request thread
    finished      \* the evaluations that have returned, in order of return

vars == <<server, model_loaded, req, pc, loc, visited, flat_areas, scan, stack,
          fill, resp, call, suspended, finished>>

\* what belongs to the server and not to the running evaluation's own steps
other == <<call, suspended, finished>>

NoResponse == [status |-> "none", prediction |-> NoValue, method |-> "none"]

NoLoc == [height_utilization |-> Zero, height_variance_score |-> Zero,
          support_score |-> Zero, compactness_score |-> Zero, raised |-> FALSE]

NoFill == [seed |-> <<0, 0>>, before |-> {}, area |-> 0, after |-> {},
           called |-> FALSE, returned |-> FALSE]

NoEvaluation == [pc |-> "none"]

\* requests of the documented shape: (1) placements of a flat item, each cell
\* untouched, raised by 1/Unit (resting on the surface) or raised from the
\* floor; (2) a level surface with at most MaxOdd cells that differ, among
\* them cells where the action map is below the height map; (3) a surface
\* with nothing placed; (4) a few cells placed on the empty floor
WellFormedRequest ==
    \/ \E pf \in [GridCells -> FlatPairs] :
          req = Request(PairGrids(pf)[1], PairGrids(pf)[2], LookaheadOf(<<Sentinel>>, 3))
    \/ \E S \in FewCells : \E odd \in [S -> OddPairs], l \in SentinelLookaheads :
          LET pf == [c \in GridCells |-> IF c \in S THEN odd[c] ELSE Level]
          IN  req = Request(PairGrids(pf)[1], PairGrids(pf)[2], l)
    \/ \E a \in Surfaces, l \in {OneItem} \cup SentinelLookaheads :
          req = Request(a, a, l)
    \/ \E a \in SparseSurfaces, l \in Lookaheads :
          req = Request(ZeroGrid, a, l)

\* the JavaScript port is given requests of the documented shape only
Init ==
    /\ \/ /\ server \in {"packer", "model_server"}
          /\ WellFormedRequest \/ (req \in MalformedRequests)
       \/ /\ server = "js"
          /\ WellFormedRequest
    /\ model_loaded \in (IF server = "model_server" THEN BOOLEAN ELSE {FALSE})
    /\ pc = "recv"
    /\ loc = NoLoc
    /\ visited = {}
    /\ flat_areas = <<>>
    /\ scan = <<0, 0>>
    /\ stack = <<>>
    /\ fill = NoFill
    /\ resp = NoResponse
    /\ call = [received |-> req, mixed |-> FALSE]
    /\ suspended = NoEvaluation
    /\ finished = <<>>

height_map == Index0(req.hmap_in)

action_map == Index0(req.amap_in)

item_features == Index0(req.imap_in)

----------------------------------------------------------------------------
(* python_packer_server.py: POST /predict and PythonBinPacker.predict *)

\* jsonify({'prediction': [[q_value]], 'status': 'success'})
PackerResponse(q_value) ==
    [status |-> "success", prediction |-> q_value, method |-> "none"]

\* variant: _find_flat_areas goes on with the visited grid of the call before
PackerPredictAlt ==
    /\ server = "packer" /\ pc = "recv"
    /\ LET hu == HeightUtilization(action_map)
           hv == HeightVarianceScore(action_map)
           sup == CalculateSupportScore(height_map, action_map)
           comp == CalculateCompactness(action_map)
           pre == FuturePrefix(action_map, item_features)
       IN  IF pre.scan
           THEN /\ pc' = "scan"
                /\ loc' = [height_utilization |-> hu, height_variance_score |-> hv,
                           support_score |-> sup, compactness_score |-> comp,
                           raised |-> FALSE]
                /\ resp' = resp
           ELSE /\ pc' = "done"
                /\ loc' = loc
                /\ resp' = PackerResponse(QValue(hu, hv, sup, comp, pre.value))
    /\ visited' = visited
    /\ flat_areas' = <<>>
    /\ scan' = <<0, 0>>
    /\ UNCHANGED <<server, model_loaded, other, req, stack, fill>>

\* predict up to _evaluate_future_items; without a grid scan the response
\* follows at once
PackerPredict ==
    /\ server = "packer" /\ pc = "recv"
    /\ LET hu == HeightUtilization(action_map)
           hv == HeightVarianceScore(action_map)
           sup == CalculateSupportScore(height_map, action_map)
           comp == CalculateCompactness(action_map)
           pre == FuturePrefix(action_map, item_features)
       IN  IF pre.scan
           THEN /\ pc' = "scan"
                /\ loc' = [height_utilization |-> hu, height_variance_score |-> hv,
                           support_score |-> sup, compactness_score |-> comp,
                           raised |-> FALSE]
                /\ resp' = resp
           ELSE /\ pc' = "done"
                /\ loc' = loc
                /\ resp' = PackerResponse(QValue(hu, hv, sup, comp, pre.value))
    /\ visited' = {}
    /\ flat_areas' = <<>>
    /\ scan' = <<0, 0>>
    /\ UNCHANGED <<server, model_loaded, other, req, stack, fill>>

\* the next (i, j) of "for i in range(grid_size): for j in range(grid_size)"
NextScan(c) == IF c[2] + 1 < GridSize THEN <<c[1], c[2] + 1>> ELSE <<c[1] + 1, 0>>

WithinTolerance(g, c, target_height) ==
    10 * Abs(At(g, c[1], c[2]) - target_height) <= Unit

\* an exception inside _find_flat_areas leaves _evaluate_future_items through
\* its except clause
FutureRaise ==
    /\ pc' = "combine"
    /\ loc' = [loc EXCEPT !.raised = TRUE]
    /\ stack' = <<>>
    /\ UNCHANGED <<visited, flat_areas, scan, fill>>

\* one iteration of the loops of _find_flat_areas: the test of the cell and,
\* for a seed, the entry into _flood_fill(height_map, visited, i, j, height)
FindFlatAreasStep ==
    /\ server = "packer" /\ pc = "scan" /\ stack = <<>>
    /\ IF scan[1] >= GridSize
       THEN /\ pc' = "combine"
            /\ UNCHANGED <<loc, visited, flat_areas, scan, stack, fill>>
       ELSE IF ~InArray(action_map, scan[1], scan[2])
       THEN FutureRaise
       ELSE IF At(action_map, scan[1], scan[2]) > 0 /\ scan \notin visited
       THEN /\ stack' = <<[i |-> scan[1], j |-> scan[2],
                           target_height |-> At(action_map, scan[1], scan[2]),
                           calls |-> 0, area |-> 1]>>
            /\ visited' = visited \cup {scan}
            /\ fill' = [seed |-> scan, before |-> visited, area |-> 0, after |-> {},
                        called |-> TRUE, returned |-> FALSE]
            /\ UNCHANGED <<pc, loc, flat_areas, scan>>
       ELSE /\ scan' = NextScan(scan)
            /\ UNCHANGED <<pc, loc, visited, flat_areas, stack, fill>>
    /\ UNCHANGED <<server, model_loaded, other, req, resp>>

\* variant: a diagonal step for (i, j + 1)
NeighbourAlt(f) ==
    CASE f.calls = 0 -> <<f.i + 1, f.j>>
      [] f.calls = 1 -> <<f.i - 1, f.j>>
      [] f.calls = 2 -> <<f.i + 1, f.j + 1>>
      [] f.calls = 3 -> <<f.i, f.j - 1>>

\* the four recursive calls, in the order of the source
Neighbour(f) ==
    CASE f.calls = 0 -> <<f.i + 1, f.j>>
      [] f.calls = 1 -> <<f.i - 1, f.j>>
      [] f.calls = 2 -> <<f.i, f.j + 1>>
      [] f.calls = 3 -> <<f.i, f.j - 1>>

Top == stack[Len(stack)]

\* the innermost invocation makes its next recursive call: the callee returns
\* 0 at its guard (call and return are one step, so stack does not show that
\* short-lived invocation), or marks the cell and becomes the innermost one
FloodFillCall ==
    /\ server = "packer" /\ pc = "scan" /\ stack # <<>> /\ Top.calls < 4
    /\ LET n == Neighbour(Top)
           returned0 == [stack EXCEPT ![Len(stack)].calls = @ + 1]
       IN  IF n[1] < 0 \/ n[1] >= GridSize \/ n[2] < 0 \/ n[2] >= GridSize
           THEN /\ stack' = returned0
                /\ UNCHANGED <<pc, loc, visited, flat_areas, scan, fill>>
           ELSE IF ~InArray(action_map, n[1], n[2])
           THEN FutureRaise
           ELSE IF n \in visited \/ ~WithinTolerance(action_map, n, Top.target_height)
           THEN /\ stack' = returned0
                /\ UNCHANGED <<pc, loc, visited, flat_areas, scan, fill>>
           ELSE /\ stack' = Append(stack, [i |-> n[1], j |-> n[2],
                                           target_height |-> Top.target_height,
                                           calls |-> 0, area |-> 1])
                /\ visited' = visited \cup {n}
                /\ UNCHANGED <<pc, loc, flat_areas, scan, fill>>
    /\ UNCHANGED <<server, model_loaded, other, req, resp>>

\* variant: the caller drops the area that the callee returns
FloodFillReturnAlt ==
    /\ server = "packer" /\ pc = "scan" /\ stack # <<>> /\ Top.calls = 4
    /\ IF Len(stack) > 1
       THEN /\ stack' = [SubSeq(stack, 1, Len(stack) - 1)
                           EXCEPT ![Len(stack) - 1].calls = @ + 1]
            /\ UNCHANGED <<flat_areas, scan, fill>>
       ELSE /\ stack' = <<>>
            /\ flat_areas' = IF Top.area > 0 THEN Append(flat_areas, Top.area)
                             ELSE flat_areas
            /\ scan' = NextScan(scan)
            /\ fill' = [fill EXCEPT !.area = Top.area, !.after = visited,
                                    !.returned = TRUE]
    /\ UNCHANGED <<server, model_loaded, other, req, pc, loc, visited, resp>>

\* the innermost invocation returns its area: to its caller's "area +=", or,
\* for the outermost one, to _find_flat_areas
FloodFillReturn ==
    /\ server = "packer" /\ pc = "scan" /\ stack # <<>> /\ Top.calls = 4
    /\ IF Len(stack) > 1
       THEN /\ stack' = [SubSeq(stack, 1, Len(stack) - 1)
                           EXCEPT ![Len(stack) - 1].calls = @ + 1,
                                  ![Len(stack) - 1].area = @ + Top.area]
            /\ UNCHANGED <<flat_areas, scan, fill>>
       ELSE /\ stack' = <<>>
            /\ flat_areas' = IF Top.area > 0 THEN Append(flat_areas, Top.area)
                             ELSE flat_areas
            /\ scan' = NextScan(scan)
            /\ fill' = [fill EXCEPT !.area = Top.area, !.after = visited,
                                    !.returned = TRUE]
    /\ UNCHANGED <<server, model_loaded, other, req, pc, loc, visited, resp>>

\* the rest of _evaluate_future_items and of predict, and the response
PackerRespond ==
    /\ server = "packer" /\ pc = "combine"
    /\ LET fut == IF loc.raised THEN Const(Half)
                  ELSE FutureCombine(action_map, flat_areas, AvgFutureSize(item_features))
       IN  resp' = PackerResponse(QValue(loc.height_utilization, loc.height_variance_score,
                                         loc.support_score, loc.compactness_score, fut))
    /\ pc' = "done"
    /\ UNCHANGED <<server, model_loaded, other, req, loc, visited, flat_areas, scan, stack, fill>>

----------------------------------------------------------------------------
(* model_server.py: POST /predict *)

ModelServerPredict ==
    /\ server = "model_server" /\ pc = "recv"
    /\ \E infer \in {"ok", "raise"} :
          resp' = ModelServerResponse(req, model_loaded, infer)
    /\ pc' = "done"
    /\ UNCHANGED <<server, model_loaded, other, req, loc, visited, flat_areas, scan, stack, fill>>

(* DeepPack3DModel.js: calculateHeuristic *)

JsPredict ==
    /\ server = "js" /\ pc = "recv"
    /\ resp' = [status |-> "success", prediction |-> JsCalculateHeuristic(req),
                method |-> "none"]
    /\ pc' = "done"
    /\ UNCHANGED <<server, model_loaded, other, req, loc, visited, flat_areas, scan, stack, fill>>

Next ==
    \/ PackerPredict
    \/ FindFlatAreasStep
    \/ FloodFillCall
    \/ FloodFillReturn
    \/ PackerRespond
    \/ ModelServerPredict
    \/ JsPredict

Spec == Init /\ [][Next]_vars

----------------------------------------------------------------------------
(* python_packer_server.py: several requests served by the one module-level
   packer, each by a thread of its own (app.run serves threaded).  The
   variables req .. call hold the frame of the thread that runs; the frame of
   a thread that waits is kept in suspended; at most MaxCalls requests are
   taken. *)

\* surfaces with flat areas of different sizes: a k x k block of height 1.0
\* in the corner, k = 1 .. grid_size - 1, and a staircase whose columns
\* differ by 1/Unit
SharedSurfaces ==
    {GridOf(GridSize, [c \in GridCells |->
                          IF c[1] < k /\ c[2] < k THEN Unit ELSE 0]) :
        k \in 1..(GridSize - 1)}
    \cup {GridOf(GridSize, [c \in GridCells |-> Unit - 1 + c[2]])}

SharedRequests == {Request(ZeroGrid, a, OneItem) : a \in SharedSurfaces}

\* the frame of the thread that runs
Running ==
    [req |-> req, pc |-> pc, loc |-> loc, visited |-> visited,
     flat_areas |-> flat_areas, scan |-> scan, stack |-> stack, fill |-> fill,
     resp |-> resp, call |-> call]

\* the frame of a thread that has just taken request r
Received(r) ==
    [req |-> r, pc |-> "recv", loc |-> NoLoc, visited |-> {}, flat_areas |-> <<>>,
     scan |-> <<0, 0>>, stack |-> <<>>, fill |-> NoFill, resp |-> NoResponse,
     call |-> [received |-> r, mixed |-> FALSE]]

InFloodFill(e) == e.pc = "scan" /\ e.stack # <<>>

Started == Len(finished) + (IF pc = "idle" THEN 0 ELSE 1)
                         + (IF suspended = NoEvaluation THEN 0 ELSE 1)

\* variant: the visited grid is kept on the packer, one for all threads
SwitchAlt ==
    /\ server = "packer" /\ suspended # NoEvaluation
    /\ LET both == InFloodFill(Running) /\ InFloodFill(suspended)
       IN  /\ suspended' = IF pc = "idle" THEN NoEvaluation
                           ELSE [Running EXCEPT !.call.mixed = @ \/ both]
           /\ call' = [suspended.call EXCEPT !.mixed = @ \/ both]
    /\ req' = suspended.req
    /\ pc' = suspended.pc
    /\ loc' = suspended.loc
    /\ visited' = visited
    /\ flat_areas' = suspended.flat_areas
    /\ scan' = suspended.scan
    /\ stack' = suspended.stack
    /\ fill' = suspended.fill
    /\ resp' = suspended.resp
    /\ UNCHANGED <<server, model_loaded, finished>>

\* the interpreter passes control to the other thread: each thread goes on
\* with its own frame, that is its own arguments, locals and visited array
Switch ==
    /\ server = "packer" /\ suspended # NoEvaluation
    /\ LET both == InFloodFill(Running) /\ InFloodFill(suspended)
       IN  /\ suspended' = IF pc = "idle" THEN NoEvaluation
                           ELSE [Running EXCEPT !.call.mixed = @ \/ both]
           /\ call' = [suspended.call EXCEPT !.mixed = @ \/ both]
    /\ req' = suspended.req
    /\ pc' = suspended.pc
    /\ loc' = suspended.loc
    /\ visited' = suspended.visited
    /\ flat_areas' = suspended.flat_areas
    /\ scan' = suspended.scan
    /\ stack' = suspended.stack
    /\ fill' = suspended.fill
    /\ resp' = suspended.resp
    /\ UNCHANGED <<server, model_loaded, finished>>

\* the route returns the response; the thread has no request any more
Finish ==
    /\ server = "packer" /\ pc = "done"
    /\ finished' = Append(finished, [req |-> req, resp |-> resp,
                                     flat_areas |-> flat_areas, call |-> call])
    /\ pc' = "idle"
    /\ UNCHANGED <<server, model_loaded, req, loc, visited, flat_areas, scan,
                   stack, fill, resp, call, suspended>>

\* a further request arrives: an idle thread takes it (what its earlier call
\* left in memory is still there), or a new thread is started for it
Accept ==
    /\ server = "packer" /\ Started < MaxCalls
    /\ \E r \in SharedRequests :
          IF pc = "idle"
          THEN /\ req' = r
               /\ pc' = "recv"
               /\ loc' = NoLoc
               /\ fill' = NoFill
               /\ resp' = NoResponse
               /\ call' = [received |-> r, mixed |-> FALSE]
               /\ UNCHANGED <<visited, flat_areas, scan, stack, suspended>>
          ELSE /\ suspended = NoEvaluation
               /\ suspended' = Received(r)
               /\ UNCHANGED <<req, pc, loc, visited, flat_areas, scan, stack,
                              fill, resp, call>>
    /\ UNCHANGED <<server, model_loaded, finished>>

InitShared ==
    /\ server = "packer"
    /\ model_loaded = FALSE
    /\ req \in SharedRequests
    /\ pc = "recv"
    /\ loc = NoLoc
    /\ visited = {}
    /\ flat_areas = <<>>
    /\ scan = <<0, 0>>
    /\ stack = <<>>
    /\ fill = NoFill
    /\ resp = NoResponse
    /\ call = [received |-> req, mixed |-> FALSE]
    /\ suspended = NoEvaluation
    /\ finished = <<>>

NextShared ==
    \/ PackerPredict
    \/ FindFlatAreasStep
    \/ FloodFillCall
    \/ FloodFillReturn
    \/ PackerRespond
    \/ Switch
    \/ Finish
    \/ Accept

SpecShared == InitShared /\ [][NextShared]_vars

----------------------------------------------------------------------------
(* Properties *)

Done(s) == pc = "done" /\ server = s

\* the grids have the documented shape: grid_size x grid_size, both
GridShaped == height_map.shape = <<GridSize, GridSize>>
              /\ action_map.shape = <<GridSize, GridSize>>

SomeCellLowered ==
    /\ SameShape(height_map, action_map)
    /\ \E k \in Positions(action_map) : action_map.data[k] < height_map.data[k]

NoNewCell ==
    /\ SameShape(height_map, action_map)
    /\ \A k \in Positions(action_map) : action_map.data[k] <= height_map.data[k]

NoPositiveCell == \A k \in Positions(action_map) : action_map.data[k] <= 0

AllSentinels ==
    \A n \in 1..ItemCount(item_features) : SeqSum(Item(item_features, n)) = 0

\* C1: whenever some cell of the action map is below the height map, the
\* evaluation (PythonBinPacker.predict, and the heuristic fallback of
\* model_server) ends without a score: the response is not a success.
C1_InvalidPlacementRejected ==
    (/\ pc = "done"
     /\ server = "packer" \/ (server = "model_server" /\ ~model_loaded)
     /\ SomeCellLowered)
    => resp.status # "success"

\* C2: when the two grids differ in shape or the lookahead rows do not have
\* three components, the packer's evaluation reports a failure: the response
\* is not a success and carries no score.
C2_MalformedInputRejected ==
    (/\ Done("packer")
     /\ ~SameShape(height_map, action_map) \/ ItemArity(item_features) # 3)
    => resp.status # "success"

\* the answer of the heuristic fallback for the maps as the request holds them
IsHeuristicAnswer ==
    /\ resp.status = "success"
    /\ resp.method = "heuristic"
    /\ resp.prediction = HeuristicScore(req.hmap_in, req.amap_in)

IsModelAnswer == resp.status = "success" /\ resp.prediction.kind = "model"

Adjacent4(c, d) == Abs(c[1] - d[1]) + Abs(c[2] - d[2]) = 1

\* the cells reachable from seed by 4-connected steps through cells of the
\* grid that are not in before and whose height is within 0.1 of the seed's
RECURSIVE Grow(_, _, _, _)
Grow(g, before, seed, S) ==
    LET more == {c \in (GridCells \cap ArrayCells(g)) \ (before \cup S) :
                    /\ 10 * Abs(At(g, c[1], c[2]) - At(g, seed[1], seed[2])) <= Unit
                    /\ \E d \in S : Adjacent4(c, d)}
    IN  IF more = {} THEN S ELSE Grow(g, before, seed, S \cup more)

Reach(g, before, seed) == Grow(g, before, seed, {seed})

\* a k x k block of height 1.0, zero elsewhere
IsBlock(g, k) ==
    \E r \in 0..(GridSize - k), c \in 0..(GridSize - k) :
        \A x \in ArrayCells(g) :
            At(g, x[1], x[2]) =
                IF x[1] >= r /\ x[1] < r + k /\ x[2] >= c /\ x[2] < c + k
                THEN Unit ELSE 0

C5_ConstantNesting == Len(stack) <= 1

\* C6: without a newly occupied cell the support score is 1.0 in the packer,
\* in the fallback of model_server and in the generated JavaScript.
C6_NoNewCellFullSupport ==
    (pc = "done" /\ NoNewCell) =>
        /\ server = "packer" => resp.prediction.support_score = One
        /\ (server = "model_server" /\ resp.method = "heuristic")
              => resp.prediction.support_score = One
        /\ server = "js" => resp.prediction.supportScore = One

\* C7: with b >= 1 base cells of which s are supported, the packer's support
\* score is 0.1 * ((s/b) / 0.5) = s/(5b) when s/b < 0.5 and s/b otherwise;
\* 40% gives 0.08 = 2/25 and 50% gives 0.5.
C7_SupportRatio ==
    (Done("packer") /\ GridShaped) =>
        LET b == Cardinality(BaseMask(height_map, action_map))
            s == Cardinality({c \in BaseMask(height_map, action_map) :
                    10 * (At(action_map, c[1], c[2]) - At(height_map, c[1], c[2])) < Unit})
            score == resp.prediction.support_score
        IN  b >= 1 =>
               /\ 2 * s < b => score[1] * 5 * b = s * score[2]
               /\ 2 * s >= b => score[1] * b = s * score[2]
               /\ 5 * s = 2 * b => score = <<2, 25>>
               /\ 2 * s = b => score = <<1, 2>>

C7_Witness ==
    /\ Done("packer") /\ GridShaped
    /\ Cardinality(BaseMask(height_map, action_map)) = 5
    /\ Cardinality(SupportedMask(height_map, action_map)) = 2
    /\ resp.prediction.support_score = <<2, 25>>

\* one positive value on a rectangle of cells, zero elsewhere
IsFlatBox(g) ==
    \E r1 \in 0..(g.shape[1] - 1), c1 \in 0..(g.shape[2] - 1) :
        \E r2 \in r1..(g.shape[1] - 1), c2 \in c1..(g.shape[2] - 1) :
            /\ At(g, r1, c1) > 0
            /\ \A x \in ArrayCells(g) :
                  At(g, x[1], x[2]) =
                      IF x[1] >= r1 /\ x[1] <= r2 /\ x[2] >= c1 /\ x[2] <= c2
                      THEN At(g, r1, c1) ELSE 0

PositiveCellVariance(g) ==
    LET pos == {p \in Positions(g) : g.data[p] > 0}
        m == Cardinality(pos)
        d == [p \in Positions(g) |->
                SeqSum([q \in Positions(g) |->
                    IF p \in pos /\ q \in pos /\ p < q
                    THEN (g.data[p] - g.data[q]) * (g.data[p] - g.data[q]) ELSE 0])]
    IN  Frac(SeqSum(d), m * m * Unit * Unit)

\* exp(-sqrt(v))
ExpOfMinusStd(v) == [c |-> Zero, w |-> One, v |-> v]

AllPositiveCellsEqual ==
    \A p, q \in Positions(action_map) :
        (action_map.data[p] > 0 /\ action_map.data[q] > 0)
            => action_map.data[p] = action_map.data[q]

NewCells(h, a) == {c \in GridCells : IsNewCell(h, a, c[1], c[2])}

\* the newly occupied cells that no other newly occupied cell within Chebyshev
\* distance 1 exceeds
UnshadowedNewCells(h, a) ==
    {c \in NewCells(h, a) :
        ~\E d \in NewCells(h, a) :
            /\ d # c
            /\ Abs(d[1] - c[1]) <= 1 /\ Abs(d[2] - c[2]) <= 1
            /\ At(a, d[1], d[2]) > At(a, c[1], c[2])}

\* C13: the base cells that the support score is computed from (by
\* _calculate_support_score and by calculateSupportScore) are exactly the
\* newly occupied cells that no other newly occupied cell within Chebyshev
\* distance 1 exceeds; a taller neighbour that is not newly occupied does not
\* take a cell out of the base set.
C13_BaseIgnoresOldCells ==
    (pc = "done" /\ server \in {"packer", "js"} /\ GridShaped) =>
        IF server = "packer"
        THEN BaseMask(height_map, action_map) =
                UnshadowedNewCells(height_map, action_map)
        ELSE {c \in GridCells : JsIsBase(height_map, action_map, c[1], c[2])} =
                UnshadowedNewCells(height_map, action_map)

\* C14: for grids with actionMap >= heightMap in every cell and at least one
\* newly occupied cell, _calculate_support_score finds at least one base cell,
\* so its "no base cell: score 0" branch is not taken.
C14_NewCellsHaveBase ==
    (Done("packer") /\ GridShaped /\ ~SomeCellLowered /\ ~NoNewCell) =>
        BaseMask(height_map, action_map) # {}

PositiveCells(g) == {c \in GridCells \cap ArrayCells(g) : At(g, c[1], c[2]) > 0}

\* C15: the regions that _find_flat_areas counts are pairwise disjoint (an
\* outermost _flood_fill call counts exactly the cells it marks, none of them
\* marked before), between two such calls the areas listed so far add up to
\* the number of cells marked visited, and once the scan is over every area
\* is at least 1, the marked cells are cells of the grid and every cell of
\* positive height is marked.
C15_FlatAreasPartition ==
    /\ fill.returned =>
          /\ fill.before \subseteq fill.after
          /\ fill.area = Cardinality(fill.after \ fill.before)
    /\ (server = "packer" /\ pc \in {"scan", "combine"} /\ stack = <<>> /\ ~loc.raised) =>
          SeqSum(flat_areas) = Cardinality(visited)
    /\ (server = "packer" /\ pc = "combine" /\ ~loc.raised) =>
          /\ \A k \in 1..Len(flat_areas) : flat_areas[k] >= 1
          /\ visited \subseteq GridCells
          /\ Cardinality(visited) <= GridSize * GridSize
          /\ PositiveCells(action_map) \subseteq visited

\* a scan that found two regions, the second of several cells, and left a
\* cell of height zero unmarked
C15_Witness ==
    /\ server = "packer" /\ pc = "combine" /\ ~loc.raised
    /\ Len(flat_areas) = 2 /\ flat_areas[2] >= 2
    /\ SeqSum(flat_areas) = Cardinality(visited)
    /\ visited # GridCells

\* the data model: grid_size x grid_size grids of non-negative heights with
\* actionMap >= heightMap in every cell, and a lookahead of non-negative
\* triples
DataModelInput ==
    /\ GridShaped
    /\ \A k \in Positions(action_map) :
          height_map.data[k] >= 0 /\ action_map.data[k] >= height_map.data[k]
    /\ ItemArity(item_features) = 3
    /\ \A k \in Positions(item_features) : item_features.data[k] >= 0

\* c + w * exp(-sqrt(v)) with 0 < exp(-sqrt(v)) <= 1 stays within [0, 1]
NumInUnitInterval(x) ==
    /\ x.c[1] >= 0 /\ x.w[1] >= 0
    /\ x.c[1] * x.w[2] + x.w[1] * x.c[2] <= x.c[2] * x.w[2]

\* C16: for every input of the data model, each sub-score of
\* PythonBinPacker.predict and of the heuristic fallback of model_server lies
\* in [0, 1] (and with it the weighted sum, whose weights add up to 1).
C16_ScoresInUnitInterval ==
    (pc = "done" /\ DataModelInput /\ resp.status = "success") =>
        LET p == resp.prediction
        IN  CASE p.kind = "q_value" ->
                    /\ InUnitInterval(p.height_utilization)
                    /\ InUnitInterval(p.height_variance_score)
                    /\ InUnitInterval(p.support_score)
                    /\ InUnitInterval(p.compactness_score)
                    /\ NumInUnitInterval(p.future_items_score)
              [] p.kind = "heuristic_score" ->
                    /\ InUnitInterval(p.height_utilization)
                    /\ InUnitInterval(p.support_score)
                    /\ InUnitInterval(p.compactness)
              [] OTHER -> TRUE

\* the part of C16 that concerns PythonBinPacker.predict
C16_PackerScoresInUnitInterval ==
    (Done("packer") /\ DataModelInput) => C16_ScoresInUnitInterval

\* C11: over the calls that one packer serves, calls with identical inputs
\* return identical scores (and flat-area lists) whatever ran in between, the
\* inputs are at the return what they were at the call, and a scan starts out
\* with a visited grid of its own, on which nothing is marked.
C11_ResultDependsOnInputsOnly ==
    /\ \A m, n \in 1..Len(finished) :
          finished[m].req = finished[n].req =>
              /\ finished[m].resp = finished[n].resp
              /\ finished[m].flat_areas = finished[n].flat_areas
    /\ \A n \in 1..Len(finished) : finished[n].req = finished[n].call.received
    /\ (pc \in {"recv", "scan", "combine", "done"}) => req = call.received
    /\ (pc = "scan" /\ ~fill.called) => visited = {}

\* the same request answered first and third, with a different one between
\* them, each after a scan that found a flat area
C11_Witness ==
    /\ Len(finished) = 3
    /\ finished[1].req = finished[3].req
    /\ finished[2].req # finished[1].req
    /\ finished[1].flat_areas # <<>> /\ finished[2].flat_areas # <<>>
    /\ finished[1].resp = finished[3].resp
    /\ finished[1].resp.status = "success"

\* the list of _find_flat_areas for a grid scanned by itself: in scan order,
\* the size of the region of each seed not yet in a region
RECURSIVE ScanAlone(_, _, _)
ScanAlone(g, c, seen) ==
    IF c[1] >= GridSize THEN <<>>
    ELSE IF At(g, c[1], c[2]) > 0 /\ c \notin seen
    THEN LET region == Reach(g, seen, c)
         IN  <<Cardinality(region)>> \o ScanAlone(g, NextScan(c), seen \cup region)
    ELSE ScanAlone(g, NextScan(c), seen)

FlatAreasAlone(g) == ScanAlone(g, <<0, 0>>, {})

\* the response to request r of a packer that serves nothing else
ResponseAlone(r) ==
    LET h == Index0(r.hmap_in)
        a == Index0(r.amap_in)
        items == Index0(r.imap_in)
        pre == FuturePrefix(a, items)
        fut == IF pre.scan
               THEN FutureCombine(a, FlatAreasAlone(a), AvgFutureSize(items))
               ELSE pre.value
    IN  PackerResponse(QValue(HeightUtilization(a), HeightVarianceScore(a),
                              CalculateSupportScore(h, a), CalculateCompactness(a),
                              fut))

\* C12: whatever the interleaving of the steps of two evaluations on the one
\* packer, each evaluation returns (seen in the state right after its return,
\* as the latest entry of finished) the flat-area list and the score that it
\* returns when it runs alone.
C12_InterleavingInvisible ==
    (pc = "idle" /\ finished # <<>>) =>
        LET e == finished[Len(finished)]
        IN  /\ e.flat_areas = FlatAreasAlone(Index0(e.req.amap_in))
            /\ e.resp = ResponseAlone(e.req)

\* two evaluations that preempted each other inside _flood_fill and found
\* flat areas
C12_Witness ==
    /\ Len(finished) >= 2
    /\ finished[1].call.mixed /\ finished[2].call.mixed
    /\ Len(finished[1].flat_areas) >= 2 /\ finished[2].flat_areas # <<>>
    /\ finished[1].req # finished[2].req
    /\ finished[1].resp = ResponseAlone(finished[1].req)

====
